---- MODULE Spec2Model ----
(***************************************************************************)
(* ArbGUI: the Streamlit dashboard (src/streamlit_app.py) and the API      *)
(* contract checker (src/scripts/check_api.py).                            *)
(*                                                                         *)
(* Three state machines share this module:                                 *)
(*   Spec     one UI session: a sequence of renders of main(), each a      *)
(*            sequence of tab steps and cache accesses;                    *)
(*   SpecChk  one run of the contract checker (either mode);               *)
(*   SpecFn   the pure helpers applied to inputs drawn from bounded sets.  *)
(*                                                                         *)
(* Python values.  A scalar is a record [t, v, s]: t is the Python type,   *)
(* v the number, s the text.  A JSON document is a record [t, body].       *)
(* Numbers are fixed point, each field in its own unit:                    *)
(*   amounts (buy/sell_available_amount)  halves   (v = 2 * amount)        *)
(*   prices, spread_jpy                   whole JPY                        *)
(*   spread_pct                           1e-5     (v = 100000 * pct)      *)
(*   estimated size cell                  whole JPY                        *)
(*   expected profit cell                 halves of a JPY                  *)
(*   spread_bps cell                      hundredths                       *)
(***************************************************************************)
EXTENDS Integers, Sequences, FiniteSets, TLC

VARIABLES
    \* ---- UI session (st.session_state and the position inside main) ----
    orderbook_cache,      \* st.session_state["orderbook_cache"]     key -> document
    orderbook_cache_ver,  \* st.session_state["orderbook_cache_ver"] key -> tick
    opp_cache,            \* st.session_state["opp_cache"]           key -> rows
    opp_cache_ver,        \* st.session_state["opp_cache_ver"]       key -> tick
    auto_count,           \* counter held by the st_autorefresh component
    refresh_tick,         \* refresh_tick of the render in progress / last render
    exchanges,            \* the multiselect's value (ordered)
    symbols,              \* the multiselect's value (ordered)
    pc,                   \* position of the render inside main()
    sym_i,                \* index into symbols of the symbol being rendered
    ex_i,                 \* index into exchanges of the next order book
    render_status,        \* "running", or how the last render ended: "none" | "completed" | "raised"
    same_tick,            \* the render in progress follows a completed render of the same tick
    uncached_calls,       \* urlopen calls the tabs of the render in progress issued directly
    refetched_fresh,      \* a cache access of the render refetched a key stamped with its tick
    last_access,          \* the latest cache access, until the order-book tab is left
    highlight_state,      \* st.session_state["highlight_<sym>"]    sym -> stored highlight
    api_base_url,         \* the value of the text input of the sidebar
    url_changed,          \* the render in progress has another base URL than the one before
    shown,                \* the columns of the symbol rendered last: exchange and highlight
    \* ---- contract checker run ----
    chk_mode,             \* args.mode
    chk_started,          \* checks whose fetch has been issued
    chk_failures,         \* the local "failures"
    chk_out,              \* the [OK]/[NG] lines printed, in order
    chk_status,           \* "running" | "returned" | "raised"
    chk_exit,             \* process exit code (-1 while running)
    chk_summary,          \* the summary line: -1 none, 0 SUCCESS, n > 0 FAILED n
    \* ---- pure helpers ----
    fn_case,              \* which helper the input is for
    fn_in,                \* the input drawn
    fn_out                \* the result

uiVars  == <<orderbook_cache, orderbook_cache_ver, opp_cache, opp_cache_ver,
             auto_count, refresh_tick, exchanges, symbols, pc, sym_i, ex_i,
             render_status, same_tick, uncached_calls, refetched_fresh,
             last_access, highlight_state, api_base_url, url_changed, shown>>
chkVars == <<chk_mode, chk_started, chk_failures, chk_out, chk_status,
             chk_exit, chk_summary>>
fnVars  == <<fn_case, fn_in, fn_out>>
vars    == <<uiVars, chkVars, fnVars>>

-----------------------------------------------------------------------------
(* Bounds *)

\* refresh ticks range over 0..MaxTick
MaxTick == 1
\* available amounts range over 0..MaxAmount halves
MaxAmount == 3
\* the lists given to build_opportunity_rows have at most MaxOpps records
MaxOpps == 3
\* a balances mapping has at most MaxEntries exchanges, an exchange entry at
\* most MaxEntries currencies
MaxEntries == 2
\* each side of an order book has at most MaxLevels levels
MaxLevels == 3

-----------------------------------------------------------------------------
(* Python scalars *)

None_   == [t |-> "none", v |-> 0, s |-> ""]
Num(n)  == [t |-> "num",  v |-> n, s |-> ""]
Str(x)  == [t |-> "str",  v |-> 0, s |-> x]
\* the placeholder string of the table cells (an em dash in the source)
Dash    == Str("-")

\* bool(x) of a scalar
Truthy(x) ==
    CASE x.t = "none" -> FALSE
      [] x.t = "num"  -> x.v # 0
      [] OTHER        -> x.s # ""

Min2(a, b) == IF b < a THEN b ELSE a

\* round(n / d) to an integer, ties to the even neighbour (Python's round)
RoundHalfEven(n, d) ==
    LET q == n \div d
        r == n % d
    IN  IF 2 * r < d THEN q
        ELSE IF 2 * r > d THEN q + 1
        ELSE IF q % 2 = 0 THEN q ELSE q + 1

Range(sq) == { sq[i] : i \in 1..Len(sq) }

-----------------------------------------------------------------------------
(* JSON documents *)

JNull       == [t |-> "none", body |-> <<>>]
\* a mapping; body is the payload the reader looks at
JDict(b)    == [t |-> "dict", body |-> b]
\* an array; body is the sequence of its elements
JList(es)   == [t |-> "list", body |-> es]
\* a text (the raw payload of an HTTP error in fetch_json)
JText       == [t |-> "str",  body |-> <<>>]

\* bool(x) of a document
DocTruthy(d) ==
    CASE d.t = "none" -> FALSE
      [] d.t = "list" -> Len(d.body) > 0
      [] OTHER        -> TRUE

-----------------------------------------------------------------------------
(* urllib.request.urlopen: the outcomes of one GET *)

\* a response (2xx): its status and its body text
Response(st, txt, doc) ==
    [kind |-> "response", status |-> st, text |-> txt, json |-> doc]
\* urllib.error.HTTPError with exc.code
HTTPError(code) ==
    [kind |-> "httperror", status |-> code, text |-> "payload", json |-> JNull]
\* urllib.error.URLError: DNS failure, connection refused, timeout while
\* connecting (urlopen wraps the OSError of the connect/send phase)
URLError(reason) ==
    [kind |-> reason, status |-> 0, text |-> "", json |-> JNull]
\* socket.timeout (TimeoutError) raised while waiting for or reading the
\* response (urlopen's getresponse(), resp.read()): an OSError that is not a
\* URLError
ReadTimeout ==
    [kind |-> "read_timeout", status |-> 0, text |-> "", json |-> JNull]

URLErrorReasons  == {"dns", "refused", "timeout"}
TransportReasons == URLErrorReasons \cup {"read_timeout"}

\* the outcomes of a GET whose well-formed bodies are drawn from docs
Outcomes(docs) ==
    { Response(200, "json", d) : d \in docs }
        \cup { Response(200, "", JNull), Response(200, "malformed", JNull),
               Response(204, "", JNull) }
        \cup { Response(201, "json", d) : d \in docs }
        \cup { HTTPError(c) : c \in {404, 500} }
        \cup { URLError(r) : r \in URLErrorReasons }
        \cup { ReadTimeout }

\* the outcome is a failure of the transport, not an answer of the server:
\* no connection, no response in time, a body json.loads rejects
IsTransportFailure(o) ==
    \/ o.kind \in TransportReasons
    \/ o.kind = "response" /\ o.text = "malformed"

Returned(st, doc) == [raised |-> FALSE, status |-> st, body |-> doc]
Raised            == [raised |-> TRUE,  status |-> -1, body |-> JNull]

\* request_json of the dashboard
request_json(o) ==
    CASE o.kind = "response" ->
            IF o.text = "" THEN Returned(o.status, JNull)
            ELSE IF o.text = "malformed" THEN Returned(0, JNull)   \* ValueError
            ELSE Returned(o.status, o.json)
      [] o.kind = "httperror" -> Returned(o.status, JNull)
      [] o.kind \in URLErrorReasons -> Returned(0, JNull)          \* URLError
      [] OTHER -> Raised                              \* not caught: propagates

\* fetch_json of the contract checker: only HTTPError is caught
fetch_json(o) ==
    CASE o.kind = "response" ->
            IF o.text = "" THEN Returned(o.status, JNull)
            ELSE IF o.text = "malformed" THEN Raised               \* ValueError
            ELSE Returned(o.status, o.json)
      [] o.kind = "httperror" -> Returned(o.status, JText)
      [] OTHER -> Raised                   \* URLError, socket.timeout: not caught

\* what a fetch_* helper hands to its caller
Value(doc) == [raised |-> FALSE, value |-> doc]
Throws     == [raised |-> TRUE,  value |-> JNull]

fetch_orderbook(o) ==
    LET r == request_json(o)
    IN  IF r.raised THEN Throws
        ELSE IF r.status # 200 \/ r.body.t # "dict" THEN Value(JNull)
        ELSE Value(r.body)

fetch_opportunities(o) ==
    LET r == request_json(o)
    IN  IF r.raised THEN Throws
        ELSE IF r.status # 200 \/ r.body.t # "list" THEN Value(JList(<<>>))
        ELSE Value(r.body)

fetch_portfolio(o) ==
    LET r == request_json(o)
    IN  IF r.raised THEN Throws
        ELSE IF r.status # 200 \/ r.body.t # "dict" THEN Value(JNull)
        ELSE Value(r.body)

-----------------------------------------------------------------------------
(* Data mapping helpers *)

\* a raw opportunity record: opp.get(k) of every field read (None_ when the
\* key is missing or null)
RawOpp(sym, bex, sex, bp, sp, sj, pct, ba, sa) ==
    JDict([symbol |-> sym, buy_exchange |-> bex, sell_exchange |-> sex,
           buy_price |-> bp, sell_price |-> sp, spread_jpy |-> sj,
           spread_pct |-> pct, buy_available_amount |-> ba,
           sell_available_amount |-> sa])

\* a variant of min_amount that tests `is not None` instead of truthiness
min_amount_if_present(opp) ==
    LET buy_amount  == opp.buy_available_amount
        sell_amount == opp.sell_available_amount
    IN  IF buy_amount.t = "num" /\ sell_amount.t = "num"
        THEN Num(Min2(buy_amount.v, sell_amount.v))
        ELSE None_
\* min_amount of build_opportunity_rows (halves)
min_amount(opp) ==
    LET buy_amount  == opp.buy_available_amount
        sell_amount == opp.sell_available_amount
    IN  IF Truthy(buy_amount) /\ Truthy(sell_amount)
        THEN Num(Min2(buy_amount.v, sell_amount.v))
        ELSE None_

\* spread_bps of build_opportunity_rows (hundredths)
spread_bps(opp) ==
    IF opp.spread_pct.t = "num"
    THEN Num(RoundHalfEven(opp.spread_pct.v, 10))
    ELSE None_

\* est_size_jpy of build_opportunity_rows (whole JPY)
est_size_jpy(opp) ==
    LET m == min_amount(opp)
    IN  IF Truthy(m) /\ Truthy(opp.buy_price) /\ Truthy(opp.sell_price)
        THEN Num(RoundHalfEven(m.v * Min2(opp.buy_price.v, opp.sell_price.v), 2))
        ELSE None_

\* expected_profit_jpy of build_opportunity_rows (halves of a JPY: the
\* product has at most one decimal, which round(.., 2) keeps)
expected_profit_jpy(opp) ==
    LET m == min_amount(opp)
    IN  IF Truthy(m) /\ Truthy(opp.spread_jpy)
        THEN Num(opp.spread_jpy.v * m.v)
        ELSE None_

\* opp.get(k, "") of a text field
GetOrEmpty(x) == IF x.t = "none" THEN Str("") ELSE x

\* the row appended for one record; cell_size is the cell "想定サイズ",
\* cell_profit the cell "推定利益"
OpportunityRow(opp) ==
    [symbol        |-> GetOrEmpty(opp.symbol),
     buy_exchange  |-> GetOrEmpty(opp.buy_exchange),
     sell_exchange |-> GetOrEmpty(opp.sell_exchange),
     buy_price     |-> opp.buy_price,
     sell_price    |-> opp.sell_price,
     spread_bps    |-> spread_bps(opp),
     spread_jpy    |-> opp.spread_jpy,
     cell_size     |-> IF est_size_jpy(opp).t = "num" THEN est_size_jpy(opp) ELSE Dash,
     cell_profit   |-> IF expected_profit_jpy(opp).t # "none"
                       THEN expected_profit_jpy(opp) ELSE Dash]

\* opp.get on an element that is not a mapping raises AttributeError
AllMappings(elems) == \A i \in 1..Len(elems) : elems[i].t = "dict"

\* min(buy_amount, sell_amount) of a text and a number raises TypeError
\* (the records modelled carry at most one amount as a text)
RowRaises(opp) ==
    /\ Truthy(opp.buy_available_amount) /\ Truthy(opp.sell_available_amount)
    /\ "str" \in {opp.buy_available_amount.t, opp.sell_available_amount.t}

\* build_opportunity_rows: one row per record, in order
build_opportunity_rows(opportunities) ==
    IF \/ ~AllMappings(opportunities)
       \/ \E i \in 1..Len(opportunities) : RowRaises(opportunities[i].body)
    THEN [raised |-> TRUE, rows |-> <<>>]
    ELSE [raised |-> FALSE,
          rows |-> [i \in 1..Len(opportunities) |->
                        OpportunityRow(opportunities[i].body)]]

-----------------------------------------------------------------------------
(* build_portfolio_positions *)

\* a key that is not in the mapping (dict.get then returns its default)
Absent == [t |-> "absent", v |-> 0, s |-> ""]

\* a mapping with ordered items: body is the sequence of its <<key, value>>
\* pairs in document order
Items(pairs) == JDict(pairs)

\* one balance record of a currency
Balance(total, price_jpy, value_jpy) ==
    JDict([total |-> total, price_jpy |-> price_jpy, value_jpy |-> value_jpy])

\* a portfolio document: has_total tells whether "total_value_jpy" is
\* there; balances is the value of "balances", JNull for null and
\* Items(<<>>) when the key is missing (the default of portfolio.get)
Portfolio(has_total, balances) ==
    JDict([has_total |-> has_total, balances |-> balances])

\* the position appended for one balance record
Position(ex, currency, balance) ==
    [exchange |-> ex, currency |-> currency,
     quantity |-> IF balance.body.total = Absent THEN Num(0) ELSE balance.body.total,
     price    |-> IF balance.body.price_jpy = Absent THEN None_ ELSE balance.body.price_jpy,
     value    |-> IF balance.body.value_jpy = Absent THEN None_ ELSE balance.body.value_jpy]

\* for currency, balance in ex_balances.items(): one position per balance
\* that is a mapping
RECURSIVE currency_positions(_, _, _)
currency_positions(ex, items, i) ==
    IF i > Len(items) THEN <<>>
    ELSE IF items[i][2].t # "dict"
         THEN currency_positions(ex, items, i + 1)
         ELSE <<Position(ex, items[i][1], items[i][2])>>
                  \o currency_positions(ex, items, i + 1)

\* a variant of the body of the outer loop that keeps the first currency only
exchange_positions_first_only(ex, ex_balances) ==
    IF ex_balances.t # "dict" THEN <<>>
    ELSE LET all == currency_positions(ex, ex_balances.body, 1)
         IN  IF all = <<>> THEN all ELSE <<all[1]>>
\* the body of the outer loop: an exchange entry that is no mapping is
\* skipped
exchange_positions(ex, ex_balances) ==
    IF ex_balances.t # "dict" THEN <<>>
    ELSE currency_positions(ex, ex_balances.body, 1)

RECURSIVE positions_from(_, _)
positions_from(items, i) ==
    IF i > Len(items) THEN <<>>
    ELSE exchange_positions(items[i][1], items[i][2]) \o positions_from(items, i + 1)

\* build_portfolio_positions; balances.items() raises AttributeError when
\* "balances" is not a mapping
build_portfolio_positions(portfolio) ==
    IF portfolio.body.balances.t # "dict"
    THEN [raised |-> TRUE, positions |-> <<>>]
    ELSE [raised |-> FALSE,
          positions |-> positions_from(portfolio.body.balances.body, 1)]

-----------------------------------------------------------------------------
(* Order-book table and highlight: render_orderbook_table, main 557-564 *)

\* one level of a side; price is None_ when the level has no "price" key
Level(price) == JDict([price |-> price])
\* lvl.get("price", 0)
LevelPrice(lvl) == IF lvl.body.price.t = "none" THEN 0 ELSE lvl.body.price.v

\* an order book: asks and bids are JList(levels), best price first, or
\* JNull when the key is missing; has_header: "timestamp" and "exchange"
\* are there; has_mid: "mid_price", "spread", "best_bid", "best_ask" are
OrderBook(asks, bids, has_header, has_mid) ==
    JDict([asks |-> asks, bids |-> bids, has_header |-> has_header,
           has_mid |-> has_mid])

Abs(n) == IF n < 0 THEN -n ELSE n

Reversed(sq) == [i \in 1..Len(sq) |-> sq[Len(sq) + 1 - i]]

\* min(range(len(levels)), key=lambda i: abs(levels[i].get("price", 0) - p)):
\* the scan keeps the first index (0-based) of the smallest key
RECURSIVE MinScan(_, _, _, _)
MinScan(levels, p, i, best) ==
    IF i > Len(levels) THEN best - 1
    ELSE IF Abs(LevelPrice(levels[i]) - p) < Abs(LevelPrice(levels[best]) - p)
         THEN MinScan(levels, p, i + 1, i)
         ELSE MinScan(levels, p, i + 1, best)

nearest_idx(levels, p) == MinScan(levels, p, 2, 1)

\* the highlight handed to render_orderbook_table; role "none" is None
NoHighlight == [role |-> "none", price |-> None_]
Highlight(role, price) == [role |-> role, price |-> price]

\* st.session_state.get(highlight_state_key, {}): nothing stored, or
\* {"row": selected_idx, **top_opps[selected_idx]}
NoHState == [set |-> FALSE]
HState(row, opp) == [set |-> TRUE, row |-> row, opp |-> opp]

\* a variant of the highlight selection that tests the sell exchange first
highlight_of_sell_first(h_state, ex) ==
    IF ~h_state.set THEN NoHighlight
    ELSE IF Str(ex) = h_state.opp.sell_exchange
         THEN Highlight("sell", h_state.opp.sell_price)
    ELSE IF Str(ex) = h_state.opp.buy_exchange
         THEN Highlight("buy", h_state.opp.buy_price)
    ELSE NoHighlight
\* the highlight of the column of exchange ex (main, lines 558-564)
highlight_of(h_state, ex) ==
    IF ~h_state.set THEN NoHighlight
    ELSE IF Str(ex) = h_state.opp.buy_exchange
         THEN Highlight("buy", h_state.opp.buy_price)
    ELSE IF Str(ex) = h_state.opp.sell_exchange
         THEN Highlight("sell", h_state.opp.sell_price)
    ELSE NoHighlight

\* render_orderbook_table: the rows of the two sides as displayed (asks
\* reversed, highest at the top) and the index of the highlighted row of
\* each side, -1 for None; a missing key raises KeyError
NotRendered == [raised |-> TRUE, asks |-> <<>>, bids |-> <<>>,
                ask_hit_idx |-> -1, bid_hit_idx |-> -1]
render_orderbook_table(orderbook, highlight) ==
    IF orderbook.body.asks.t # "list" \/ orderbook.body.bids.t # "list"
       \/ ~orderbook.body.has_mid
    THEN NotRendered
    ELSE LET asks == Reversed(orderbook.body.asks.body)
             bids == orderbook.body.bids.body
             highlight_role  == highlight.role
             highlight_price == highlight.price
         IN  [raised |-> FALSE, asks |-> asks, bids |-> bids,
              ask_hit_idx |->
                  IF highlight_price.t # "none" /\ highlight_role = "buy" /\ asks # <<>>
                  THEN nearest_idx(asks, highlight_price.v) ELSE -1,
              bid_hit_idx |->
                  IF highlight_price.t # "none" /\ highlight_role = "sell" /\ bids # <<>>
                  THEN nearest_idx(bids, highlight_price.v) ELSE -1]

-----------------------------------------------------------------------------
(* Contract validation helpers *)

\* k in obj, for obj a mapping whose payload is the ordered sequence of its
\* keys: scans the keys
RECURSIVE KeyIn(_, _, _)
KeyIn(k, ks, i) ==
    IF i > Len(ks) THEN FALSE
    ELSE IF ks[i] = k THEN TRUE
    ELSE KeyIn(k, ks, i + 1)

\* ensure_keys: [k for k in keys if k not in obj].  obj is a mapping
\* (payload: its keys in document order) or a list (payload: its elements;
\* a text element is its text); `in` on None raises TypeError
RECURSIVE ensure_keys_from(_, _, _)
ensure_keys_from(obj, keys, i) ==
    IF i > Len(keys) THEN <<>>
    ELSE IF KeyIn(keys[i], obj.body, 1)
         THEN ensure_keys_from(obj, keys, i + 1)
         ELSE <<keys[i]>> \o ensure_keys_from(obj, keys, i + 1)

ensure_keys(obj, keys) ==
    IF obj.t \in {"dict", "list"}
    THEN [raised |-> FALSE, missing |-> ensure_keys_from(obj, keys, 1)]
    ELSE [raised |-> TRUE, missing |-> <<>>]

\* ensure_list
ensure_list(obj) == obj.t = "list"

\* a variant of the guarded call without the isinstance guard
missing_keys_unguarded(document, required) == ensure_keys(document, required)
\* the guarded call made for an element of a list response:
\* ensure_keys(data[0], required) if isinstance(data[0], dict) else required
missing_keys(document, required) ==
    IF document.t = "dict" THEN ensure_keys(document, required)
    ELSE [raised |-> FALSE, missing |-> required]

-----------------------------------------------------------------------------
(* UI session: main() of streamlit_app.py *)

\* the options of the two multiselects (a part of each list of the source)
AVAILABLE_EXCHANGES == <<"bitbank">>
AVAILABLE_SYMBOLS   == <<"MONA/JPY", "XRP/JPY">>

\* [:5] of the per-symbol opportunity rows
TopOpps == 5

\* the values a multiselect can hold: the sub-lists of its options
Selections(options) ==
    { <<>> } \cup { <<options[i]>> : i \in 1..Len(options) }
             \cup { options }

\* ob_key = f"{ex}:{sym}" and opp_key = sym
ob_key(ex, sym) == <<ex, sym>>
opp_key(sym)    == <<sym>>

ObKeys  == { ob_key(AVAILABLE_EXCHANGES[i], AVAILABLE_SYMBOLS[j]) :
                i \in 1..Len(AVAILABLE_EXCHANGES), j \in 1..Len(AVAILABLE_SYMBOLS) }
OppKeys == { opp_key(AVAILABLE_SYMBOLS[j]) : j \in 1..Len(AVAILABLE_SYMBOLS) }

\* dict.get(k) on a tick map: -1 stands for None
GetVer(ver, k) == IF k \in DOMAIN ver THEN ver[k] ELSE -1
\* a variant of d[k] = v that rebinds the dict to the one entry
PutAlone(d, k, v) == [x \in {k} |-> v]
\* d[k] = v
Put(d, k, v) == [x \in DOMAIN d \cup {k} |-> IF x = k THEN v ELSE d[x]]
\* s[:n]
Take(sq, n) == SubSeq(sq, 1, Min2(n, Len(sq)))

\* a variant of the stamping that leaves the tick map as it is
StampSkipped(ver, k, g) == ver
\* cache_ver[key] = refresh_tick
Stamp(ver, k, g) == Put(ver, k, g)

\* a variant of the highlight update that forgets the stored highlight when
\* the list is empty
store_highlight_or_clear(hl, sym, top_opps, pick) ==
    IF top_opps = <<>> THEN [x \in DOMAIN hl \ {sym} |-> hl[x]]
    ELSE LET selected_idx == Min2(pick, Len(top_opps) - 1)
         IN  Put(hl, sym, HState(selected_idx, top_opps[selected_idx + 1]))
\* if top_opps: st.session_state[highlight_state_key] =
\* {"row": selected_idx, **top_opps[selected_idx]}; the selectbox offers
\* range(len(top_opps)), so the pick of the user is one of them
store_highlight(hl, sym, top_opps, pick) ==
    IF top_opps = <<>> THEN hl
    ELSE LET selected_idx == Min2(pick, Len(top_opps) - 1)
         IN  Put(hl, sym, HState(selected_idx, top_opps[selected_idx + 1]))

\* st.session_state.get(highlight_state_key, {})
HGet(hl, sym) == IF sym \in DOMAIN hl THEN hl[sym] ELSE NoHState

\* ---- what the user can enter ----

\* the default of the text input and another API
DefaultUrl == "http://localhost:8000"
ApiBaseUrls == { DefaultUrl, "http://other:8000" }

\* the options the user picks in the selectbox of a symbol: the first one
\* and the last one that [:5] can leave
Picks == { 0, TopOpps - 1 }

\* ---- what the API can answer ----

\* one outcome of each class the dashboard tells apart: a JSON body of
\* status 200, an HTTP error, a refused connection, a read timeout
SessionOutcomes(docs) ==
    { Response(200, "json", d) : d \in docs }
        \cup { HTTPError(500), URLError("refused"), ReadTimeout }

\* order books: a complete one, and books that lack "timestamp" or "asks"
OrderBookDocs ==
    { OrderBook(JList(<<Level(Num(100)), Level(Num(110))>>),
                JList(<<Level(Num(95))>>), TRUE, TRUE) }
PartialOrderBookDocs ==
    { OrderBook(JList(<<Level(Num(100))>>), JList(<<Level(Num(95))>>), FALSE, TRUE),
      OrderBook(JNull, JList(<<Level(Num(95))>>), TRUE, TRUE) }

\* portfolios: with and without total_value_jpy, and with "balances": null
PortfolioDocs ==
    LET balances == Items(<< <<"bitbank",
                               Items(<< <<"JPY", Balance(Num(2), Num(1), Num(2))>> >>)>> >>)
    IN  { Portfolio(TRUE, balances), Portfolio(FALSE, balances),
          Portfolio(TRUE, JNull) }

\* one opportunity of a symbol
SampleOpp(sym) ==
    RawOpp(Str(sym), Str("bitbank"), Str("zaif"), Num(100), Num(101), Num(1),
           Num(1000), Num(4), Num(6))

\* opportunity lists: empty, one symbol, both symbols, more than TopOpps of
\* one symbol, and one with an element that is not an object
OppListDocs ==
    { JList(<<>>),
      JList(<<SampleOpp(AVAILABLE_SYMBOLS[1])>>),
      JList([i \in 1..(TopOpps + 1) |-> SampleOpp(AVAILABLE_SYMBOLS[2])]),
      JList(<<JNull>>) }

NoAccess ==
    [cache |-> "none", key |-> <<>>, tick |-> -1, fetched |-> FALSE,
     returned |-> FALSE, value |-> JNull]

\* no column rendered
NoShown == [sym |-> "", cols |-> <<>>]

InitUI ==
    /\ orderbook_cache = <<>>
    /\ orderbook_cache_ver = <<>>
    /\ opp_cache = <<>>
    /\ opp_cache_ver = <<>>
    /\ auto_count = 0
    /\ refresh_tick = 0
    /\ exchanges = <<>>
    /\ symbols = <<>>
    /\ pc = "idle"
    /\ sym_i = 1
    /\ ex_i = 1
    /\ render_status = "none"
    /\ same_tick = FALSE
    /\ uncached_calls = 0
    /\ refetched_fresh = FALSE
    /\ last_access = NoAccess
    /\ highlight_state = <<>>
    /\ api_base_url = DefaultUrl
    /\ url_changed = FALSE
    /\ shown = NoShown

cacheVars == <<orderbook_cache, orderbook_cache_ver, opp_cache, opp_cache_ver>>

\* A script run starts: the sidebar widgets hold what the user entered,
\* st_autorefresh returns its counter (which its timer may have advanced),
\* or the tick is 0 when auto-refresh is off.
Rerun(auto_refresh, fired, url) ==
    /\ pc = "idle"
    /\ fired => auto_refresh /\ auto_count < MaxTick
    /\ auto_count' = IF fired THEN auto_count + 1 ELSE auto_count
    /\ refresh_tick' = IF auto_refresh THEN auto_count' ELSE 0
    /\ api_base_url' = url
    /\ url_changed' = (render_status # "none" /\ url # api_base_url)
    /\ pc' = "dashboard"
    /\ render_status' = "running"
    /\ same_tick' = (render_status = "completed" /\ refresh_tick' = refresh_tick)
    /\ UNCHANGED <<cacheVars, exchanges, symbols, sym_i, ex_i,
                   uncached_calls, refetched_fresh, last_access, highlight_state, shown>>

\* the script run is over: the locals of main() and the counters of the
\* run are gone, st.session_state stays
EndRun(status) ==
    /\ pc' = "idle"
    /\ render_status' = status
    /\ exchanges' = <<>>
    /\ symbols' = <<>>
    /\ sym_i' = 1
    /\ ex_i' = 1
    /\ same_tick' = FALSE
    /\ uncached_calls' = 0
    /\ refetched_fresh' = FALSE
    /\ url_changed' = FALSE

\* an exception leaves main()
Abort == EndRun("raised")

\* f"{portfolio_data['total_value_jpy']:,}" raises KeyError without the key
TotalValueRaises(portfolio) == ~portfolio.body.has_total

\* with tab_dashboard: two fetches, neither cached
TabDashboard(o1, o2) ==
    /\ pc = "dashboard"
    /\ LET p    == fetch_portfolio(o1)
           opps == fetch_opportunities(o2)
           rows == build_opportunity_rows(opps.value.body)
       IN  IF \/ p.raised
              \/ opps.raised
              \/ rows.raised
              \/ DocTruthy(p.value) /\ TotalValueRaises(p.value)
           THEN Abort
           ELSE /\ pc' = "orderbook"
                /\ uncached_calls' = uncached_calls + 2
                /\ UNCHANGED <<exchanges, symbols, sym_i, ex_i, render_status,
                               same_tick, refetched_fresh, url_changed>>
    /\ UNCHANGED <<cacheVars, auto_count, refresh_tick, last_access, highlight_state,
                   api_base_url, shown>>

\* with tab_orderbook: the values of the two multiselects (set in the
\* sidebar) are first read here
TabOrderbook(exs, syms) ==
    /\ pc = "orderbook"
    /\ IF exs = <<>> \/ syms = <<>>
       THEN /\ pc' = "arbitrage"
            /\ UNCHANGED <<exchanges, symbols>>
       ELSE /\ pc' = "opp"
            /\ exchanges' = exs
            /\ symbols' = syms
    /\ UNCHANGED <<cacheVars, auto_count, refresh_tick, sym_i, ex_i, render_status,
                   same_tick, uncached_calls, refetched_fresh, last_access,
                   highlight_state, api_base_url, url_changed, shown>>

\* the access recorded for key k of a cache
Access(c, k, fetched, returned, value) ==
    [cache |-> c, key |-> k, tick |-> refresh_tick, fetched |-> fetched,
     returned |-> returned, value |-> value]

\* the per-symbol rows stored by a miss: filter by symbol, map, keep TopOpps
SymbolRows(all_opps, sym) ==
    IF ~AllMappings(all_opps) THEN [raised |-> TRUE, rows |-> <<>>]
    ELSE LET filtered == SelectSeq(all_opps, LAMBDA opp : opp.body.symbol = Str(sym))
             built    == build_opportunity_rows(filtered)
         IN  [raised |-> built.raised, rows |-> Take(built.rows, TopOpps)]

\* a variant of the tick check that never trusts the stored entry
NeedsComputeAlways(ver, k, g) == TRUE
\* a variant of the tick check that also refetches after a change of the
\* base URL
NeedsComputeOrNewUrl(ver, k, g) == GetVer(ver, k) # g \/ url_changed
\* the tick check of both caches: the entry has to be (re)computed
NeedsCompute(ver, k, g) == GetVer(ver, k) # g

\* for sym in symbols: the opp_cache access of the symbol and the update of
\* its stored highlight (lines 514-539)
OppAccess(o, pick) ==
    /\ pc = "opp"
    /\ LET sym      == symbols[sym_i]
           k        == opp_key(sym)
           miss     == NeedsCompute(opp_cache_ver, k, refresh_tick)
           all_opps == fetch_opportunities(o)
           computed == SymbolRows(all_opps.value.body, sym)
           top_opps == IF miss THEN computed.rows ELSE opp_cache[k]
       IN  IF miss /\ (all_opps.raised \/ computed.raised)
           THEN /\ Abort
                /\ last_access' = Access("opp", k, TRUE, FALSE, <<>>)
                /\ UNCHANGED <<opp_cache, opp_cache_ver, highlight_state>>
           ELSE /\ opp_cache' = IF miss THEN Put(opp_cache, k, top_opps) ELSE opp_cache
                /\ opp_cache_ver' =
                       IF miss THEN Stamp(opp_cache_ver, k, refresh_tick)
                       ELSE opp_cache_ver
                /\ last_access' = Access("opp", k, miss, TRUE, top_opps)
                /\ refetched_fresh' =
                       (refetched_fresh
                           \/ (miss /\ GetVer(opp_cache_ver, k) = refresh_tick))
                /\ highlight_state' = store_highlight(highlight_state, sym, top_opps, pick)
                /\ pc' = "ob"
                /\ UNCHANGED <<exchanges, symbols, sym_i, ex_i, render_status,
                               same_tick, uncached_calls, url_changed>>
    /\ shown' = NoShown
    /\ UNCHANGED <<orderbook_cache, orderbook_cache_ver, auto_count, refresh_tick,
                   api_base_url>>

\* where main() goes after the order book of exchanges[ex_i]
AfterOrderBook ==
    IF ex_i < Len(exchanges) THEN "ob"
    ELSE IF sym_i < Len(symbols) THEN "opp"
    ELSE "arbitrage"

\* for ex in exchanges: the orderbook_cache access of (ex, sym); after the
\* last exchange of the symbol, the columns of the order books that were
\* obtained, each with its highlight (lines 542-569)
ObAccess(o) ==
    /\ pc = "ob"
    /\ LET sym    == symbols[sym_i]
           ex     == exchanges[ex_i]
           k      == ob_key(ex, sym)
           miss   == NeedsCompute(orderbook_cache_ver, k, refresh_tick)
           fetched == fetch_orderbook(o)
           ob     == IF miss THEN fetched.value ELSE orderbook_cache[k]
           cache  == IF miss THEN Put(orderbook_cache, k, ob) ELSE orderbook_cache
           next   == AfterOrderBook
           available == IF next = "ob" THEN <<>>
                        ELSE SelectSeq(exchanges,
                                       LAMBDA e : DocTruthy(cache[ob_key(e, sym)]))
           cols   == [i \in 1..Len(available) |->
                         [ex |-> available[i],
                          highlight |-> highlight_of(HGet(highlight_state, sym), available[i])]]
           \* ob["timestamp"], ob["exchange"] and the keys the table reads
           col_raises(i) ==
               LET book == cache[ob_key(available[i], sym)]
               IN  \/ ~book.body.has_header
                   \/ render_orderbook_table(book, cols[i].highlight).raised
           moveOn == /\ pc' = next
                     /\ ex_i' = IF next = "ob" THEN ex_i + 1 ELSE 1
                     /\ sym_i' = CASE next = "ob" -> sym_i
                                   [] next = "opp" -> sym_i + 1
                                   [] OTHER -> 1
                     \* the tab is left: exchanges and symbols are not read again
                     /\ exchanges' = IF next = "arbitrage" THEN <<>> ELSE exchanges
                     /\ symbols' = IF next = "arbitrage" THEN <<>> ELSE symbols
                     /\ UNCHANGED <<render_status, same_tick, uncached_calls,
                                    url_changed>>
       IN  IF miss /\ fetched.raised
           THEN /\ Abort
                /\ last_access' = Access("ob", k, TRUE, FALSE, JNull)
                /\ shown' = NoShown
                /\ UNCHANGED <<orderbook_cache, orderbook_cache_ver>>
           ELSE /\ orderbook_cache' = cache
                /\ orderbook_cache_ver' =
                       IF miss THEN Stamp(orderbook_cache_ver, k, refresh_tick)
                       ELSE orderbook_cache_ver
                /\ last_access' = Access("ob", k, miss, TRUE, ob)
                /\ IF \E i \in 1..Len(available) : col_raises(i)
                   THEN Abort /\ shown' = NoShown
                   ELSE /\ moveOn
                        /\ shown' = IF next = "ob" THEN shown
                                    ELSE [sym |-> sym, cols |-> cols]
                        /\ refetched_fresh' =
                               (refetched_fresh
                                   \/ (miss /\ GetVer(orderbook_cache_ver, k) = refresh_tick))
    /\ UNCHANGED <<opp_cache, opp_cache_ver, auto_count, refresh_tick, highlight_state,
                   api_base_url>>

\* with tab_arbitrage: one fetch, not cached
TabArbitrage(o) ==
    /\ pc = "arbitrage"
    /\ LET opps == fetch_opportunities(o)
           rows == build_opportunity_rows(opps.value.body)
       IN  IF opps.raised \/ rows.raised THEN Abort
           ELSE /\ pc' = "portfolio"
                /\ uncached_calls' = uncached_calls + 1
                /\ UNCHANGED <<exchanges, symbols, sym_i, ex_i, render_status,
                               same_tick, refetched_fresh, url_changed>>
    /\ last_access' = NoAccess
    /\ shown' = NoShown
    /\ UNCHANGED <<cacheVars, auto_count, refresh_tick, highlight_state, api_base_url>>

\* with tab_portfolio: one fetch, not cached, and the positions of the
\* portfolio obtained; the script run ends
TabPortfolio(o) ==
    /\ pc = "portfolio"
    /\ LET p == fetch_portfolio(o)
       IN  IF \/ p.raised
              \/ DocTruthy(p.value)
                    /\ (TotalValueRaises(p.value)
                            \/ build_portfolio_positions(p.value).raised)
           THEN Abort
           ELSE EndRun("completed")
    /\ UNCHANGED <<cacheVars, auto_count, refresh_tick, last_access, highlight_state,
                   api_base_url, shown>>

-----------------------------------------------------------------------------
(* Contract checker: main(), test_arbgui, test_openapi of check_api.py *)

\* one check: the shape the body must have ("health": a mapping holding
\* "status") and its required keys
Check(shape, required) == [shape |-> shape, required |-> required]

OrderbookKeys   == <<"exchange", "symbol", "timestamp", "bids", "asks">>
OpportunityKeys == <<"symbol", "buy_exchange", "sell_exchange", "buy_price",
                     "sell_price", "spread_jpy", "spread_pct", "timestamp">>

\* the checks of test_arbgui, in order
ArbguiChecks ==
    << Check("dict", <<"exchange", "symbol", "timestamp", "bids", "asks",
                       "best_bid", "best_ask", "mid_price", "spread">>),
       Check("list", <<"timestamp", "base_symbol", "buy_exchange", "sell_exchange",
                       "buy_price", "sell_price", "spread_bps",
                       "estimated_size_jpy", "expected_profit_jpy">>),
       Check("dict", <<"updated_at", "total_value_jpy", "exchanges">>) >>

\* the checks of test_openapi, in order
OpenapiChecks ==
    << Check("health", <<"status">>),
       Check("list", OrderbookKeys),
       Check("dict", OrderbookKeys),
       Check("list", OrderbookKeys),
       Check("list", OpportunityKeys),
       Check("list", OpportunityKeys),
       Check("dict", <<"balances", "total_value_jpy", "last_updated">>),
       Check("dict", <<"active_orders", "recent_executions", "total_trades",
                       "successful_trades", "failed_trades", "total_profit_jpy">>),
       Check("list", <<"id", "opportunity", "buy_order_id", "sell_order_id",
                       "status", "created_at", "one_sided_risk">>),
       Check("dict", <<"total_orderbooks", "orderbook_history_size",
                       "current_opportunities", "opportunity_history_size",
                       "active_orders", "execution_history_size", "total_trades",
                       "successful_trades", "failed_trades", "total_profit_jpy">>),
       Check("dict", <<"orderbooks", "opportunities", "execution_summary",
                       "timestamp">>) >>

Checks(mode) == IF mode = "arbgui" THEN ArbguiChecks ELSE OpenapiChecks

\* the bodies an endpoint can answer a check with: complete and incomplete
\* mappings, lists of them, a list of a non-mapping, null
BodiesFor(required) ==
    { JNull, JDict(required), JDict(Tail(required)), JDict(<<>>),
      JList(<<>>), JList(<<JDict(required)>>), JList(<<JDict(Tail(required))>>),
      JList(<<JNull>>) }

\* the outcome of one check on what fetch_json returned: the line printed
\* and the increment of failures
CheckResult(c, r) ==
    LET line(ok) == [line |-> IF ok THEN "OK" ELSE "NG", failed |-> IF ok THEN 0 ELSE 1]
    IN  CASE c.shape = "health" ->
                line(r.status = 200 /\ r.body.t = "dict" /\ KeyIn("status", r.body.body, 1))
          [] c.shape = "dict" ->
                IF r.status # 200 \/ r.body.t # "dict" THEN line(FALSE)
                ELSE line(ensure_keys(r.body, c.required).missing = <<>>)
          [] OTHER ->
                IF r.status # 200 \/ ~ensure_list(r.body) THEN line(FALSE)
                ELSE IF DocTruthy(r.body)
                     THEN line(missing_keys(r.body.body[1], c.required).missing = <<>>)
                     ELSE line(TRUE)

InitChk ==
    /\ chk_mode \in {"arbgui", "openapi"}
    /\ chk_started = 0
    /\ chk_failures = 0
    /\ chk_out = <<>>
    /\ chk_status = "running"
    /\ chk_exit = -1
    /\ chk_summary = -1

\* the next check of the profile: fetch, judge, print, count.  An exception
\* that leaves fetch_json leaves main(): the interpreter prints the
\* traceback and exits with status 1.
RunCheck(o) ==
    /\ chk_status = "running"
    /\ chk_started < Len(Checks(chk_mode))
    /\ LET c == Checks(chk_mode)[chk_started + 1]
           r == fetch_json(o)
       IN  /\ chk_started' = chk_started + 1
           /\ IF r.raised
              THEN /\ chk_status' = "raised"
                   /\ chk_exit' = 1
                   /\ UNCHANGED <<chk_failures, chk_out>>
              ELSE /\ chk_out' = Append(chk_out, CheckResult(c, r).line)
                   /\ chk_failures' = chk_failures + CheckResult(c, r).failed
                   /\ UNCHANGED <<chk_status, chk_exit>>
    /\ UNCHANGED <<chk_mode, chk_summary>>

\* test_* returns failures; main prints the summary and returns the exit code
Summarise ==
    /\ chk_status = "running"
    /\ chk_started = Len(Checks(chk_mode))
    /\ chk_status' = "returned"
    /\ chk_summary' = chk_failures
    /\ chk_exit' = IF chk_failures # 0 THEN 1 ELSE 0
    /\ UNCHANGED <<chk_mode, chk_started, chk_failures, chk_out>>

\* the outcomes the endpoint of the next check can produce
CheckOutcomes ==
    IF chk_started < Len(Checks(chk_mode))
    THEN Outcomes(BodiesFor(Checks(chk_mode)[chk_started + 1].required))
    ELSE {}

-----------------------------------------------------------------------------
(* The pure helpers on inputs drawn from bounded sets *)

\* bodies for the fetch helpers: every shape the dashboard reads
FetchDocs == {JNull} \cup OrderBookDocs \cup PortfolioDocs \cup OppListDocs

Amounts    == {None_} \cup { Num(n) : n \in 0..MaxAmount }
\* the buy amount may also arrive as a JSON text
BuyAmounts == Amounts \cup { Str("1.5") }
Prices     == { None_, Num(0), Num(90), Num(101) }
SpreadsJpy == { None_, Num(0), Num(3) }
SpreadsPct == { None_, Str("n/a"), Num(555) }

\* raw opportunities of one symbol
OppSpace ==
    { RawOpp(Str("XRP/JPY"), Str("bitbank"), Str("zaif"), bp, sp, sj, pct, ba, sa) :
        bp \in Prices, sp \in Prices, sj \in SpreadsJpy, pct \in SpreadsPct,
        ba \in BuyAmounts, sa \in Amounts }

\* a few records to build longer lists from: complete, without amounts,
\* with a zero amount, and an element that is not an object
ListOpps ==
    { RawOpp(Str("XRP/JPY"), Str("bitbank"), Str("zaif"), Num(100), Num(90),
             Num(3), Num(555), Num(2), Num(3)),
      RawOpp(Str("XRP/JPY"), Str("zaif"), Str("bitbank"), Num(90), Num(101),
             Num(3), None_, None_, Num(3)),
      RawOpp(Str("MONA/JPY"), Str("bitbank"), Str("zaif"), Num(90), Num(101),
             None_, Num(555), Num(0), Num(3)),
      JNull }

SeqsUpTo(S, n) == UNION { [1..m -> S] : m \in 0..n }

RowInputs == { <<o>> : o \in OppSpace } \cup SeqsUpTo(ListOpps, MaxOpps)

\* documents for ensure_keys: mappings with their keys in every order,
\* lists of texts, null
KeyUniverse == {"updated_at", "total_value_jpy", "exchanges", "balances"}
KeySeqs ==
    { ks \in SeqsUpTo(KeyUniverse, Cardinality(KeyUniverse)) :
        \A i, j \in 1..Len(ks) : i # j => ks[i] # ks[j] }
KeyDocs == { JDict(ks) : ks \in KeySeqs }
              \cup { JNull, JList(<<>>), JList(<<"updated_at">>) }
RequiredLists == { ArbguiChecks[3].required, OpenapiChecks[7].required }

\* order books for render_orderbook_table: every pair of sides with
\* distinct prices, best first, a level without a price, and books that
\* lack a key
LevelPrices == { 100 + 5 * i : i \in 0..(MaxLevels - 1) }
Ascending ==
    { sq \in SeqsUpTo(LevelPrices, MaxLevels) :
        \A i \in 1..(Len(sq) - 1) : sq[i] < sq[i + 1] }
Levels(prices) == JList([i \in 1..Len(prices) |-> Level(Num(prices[i]))])
AskLists == { Levels(sq) : sq \in Ascending } \cup { JList(<<Level(None_)>>) }
BidLists == { Levels(Reversed(sq)) : sq \in Ascending } \cup { JList(<<Level(None_)>>) }
TableBooks ==
    { OrderBook(a, b, TRUE, TRUE) : a \in AskLists, b \in BidLists }
        \cup { OrderBook(JNull, Levels(<<100>>), TRUE, TRUE),
               OrderBook(Levels(<<100>>), JNull, TRUE, TRUE),
               OrderBook(Levels(<<105>>), Levels(<<100>>), TRUE, FALSE) }
\* stored highlights: none, or a row of two exchanges (possibly the same
\* one) with or without prices
HStates ==
    { NoHState } \cup
    { HState(0, OpportunityRow(RawOpp(Str("XRP/JPY"), Str(bex), Str(sex), bp, sp,
                                      Num(1), None_, Num(2), Num(2)).body)) :
        bex \in {"bitbank", "zaif"}, sex \in {"bitbank", "zaif"},
        bp \in {None_, Num(105), Num(106)}, sp \in {None_, Num(105)} }
ColumnExchanges == {"bitbank", "zaif", "gmocoin"}

\* portfolios for build_portfolio_positions: up to MaxEntries exchanges of
\* up to MaxEntries currencies, in every order, with entries that are not
\* mappings
DistinctKeys(pairs) == \A i, j \in 1..Len(pairs) : i # j => pairs[i][1] # pairs[j][1]
BalanceEntries ==
    { Balance(Num(2), Num(50), Num(100)), Balance(Absent, Absent, None_), JNull }
CurrencyMaps ==
    { Items(pairs) : pairs \in
        { ps \in SeqsUpTo({"JPY", "XRP"} \X BalanceEntries, MaxEntries) : DistinctKeys(ps) } }
ExchangeEntries == CurrencyMaps \cup { JNull, JList(<<>>) }
BalanceMaps ==
    { Items(pairs) : pairs \in
        { ps \in SeqsUpTo({"bitbank", "zaif"} \X ExchangeEntries, MaxEntries) :
            DistinctKeys(ps) } }
PositionInputs ==
    { Portfolio(TRUE, b) : b \in BalanceMaps } \cup { Portfolio(TRUE, JNull) }

Pending == [done |-> FALSE]

InitFn ==
    /\ fn_out = Pending
    /\ \/ fn_case = "fetch" /\ fn_in \in Outcomes(FetchDocs)
       \/ fn_case = "rows"  /\ fn_in \in RowInputs
       \/ fn_case = "keys"  /\ fn_in \in [document : KeyDocs, required : RequiredLists]
       \/ fn_case = "positions" /\ fn_in \in PositionInputs
       \/ fn_case = "render" /\ fn_in \in [orderbook : TableBooks, h_state : HStates,
                                           ex : ColumnExchanges]

\* request_json, fetch_json and the three fetch_* helpers on one outcome
ApplyFetch ==
    /\ fn_case = "fetch" /\ ~fn_out.done
    /\ fn_out' = [done |-> TRUE,
                  request_json |-> request_json(fn_in),
                  fetch_json |-> fetch_json(fn_in),
                  orderbook |-> fetch_orderbook(fn_in),
                  opportunities |-> fetch_opportunities(fn_in),
                  portfolio |-> fetch_portfolio(fn_in)]
    /\ UNCHANGED <<fn_case, fn_in>>

\* build_opportunity_rows on one list
ApplyRows ==
    /\ fn_case = "rows" /\ ~fn_out.done
    /\ fn_out' = [done |-> TRUE, built |-> build_opportunity_rows(fn_in)]
    /\ UNCHANGED <<fn_case, fn_in>>

\* ensure_keys, bare and behind the isinstance guard, on one document
ApplyKeys ==
    /\ fn_case = "keys" /\ ~fn_out.done
    /\ fn_out' = [done |-> TRUE,
                  ensure_keys |-> ensure_keys(fn_in.document, fn_in.required),
                  missing_keys |-> missing_keys(fn_in.document, fn_in.required)]
    /\ UNCHANGED <<fn_case, fn_in>>

\* build_portfolio_positions on one portfolio
ApplyPositions ==
    /\ fn_case = "positions" /\ ~fn_out.done
    /\ fn_out' = [done |-> TRUE, built |-> build_portfolio_positions(fn_in)]
    /\ UNCHANGED <<fn_case, fn_in>>

\* one column of the order-book tab: the highlight of the exchange and the
\* table rendered with it (main, lines 558-568)
ApplyRender ==
    /\ fn_case = "render" /\ ~fn_out.done
    /\ fn_out' = [done |-> TRUE,
                  highlight |-> highlight_of(fn_in.h_state, fn_in.ex),
                  table |-> render_orderbook_table(
                                fn_in.orderbook, highlight_of(fn_in.h_state, fn_in.ex))]
    /\ UNCHANGED <<fn_case, fn_in>>

-----------------------------------------------------------------------------
(* Specifications *)

IdleFn == fn_case = "none" /\ fn_in = <<>> /\ fn_out = Pending

IdleChk ==
    /\ chk_mode = "arbgui" /\ chk_started = 0 /\ chk_failures = 0 /\ chk_out = <<>>
    /\ chk_status = "running" /\ chk_exit = -1 /\ chk_summary = -1

\* one UI session
Init == InitUI /\ IdleChk /\ IdleFn

Next ==
    \/ /\ \E auto_refresh \in BOOLEAN, fired \in BOOLEAN :
                Rerun(auto_refresh, fired, DefaultUrl)
       /\ UNCHANGED <<chkVars, fnVars>>
    \/ /\ \E o1 \in SessionOutcomes(PortfolioDocs), o2 \in SessionOutcomes(OppListDocs) :
                TabDashboard(o1, o2)
       /\ UNCHANGED <<chkVars, fnVars>>
    \/ /\ \E exs \in Selections(AVAILABLE_EXCHANGES),
             syms \in Selections(AVAILABLE_SYMBOLS) : TabOrderbook(exs, syms)
       /\ UNCHANGED <<chkVars, fnVars>>
    \/ /\ \E o \in SessionOutcomes(OppListDocs) : OppAccess(o, 0)
       /\ UNCHANGED <<chkVars, fnVars>>
    \/ /\ \E o \in SessionOutcomes(OrderBookDocs) : ObAccess(o)
       /\ UNCHANGED <<chkVars, fnVars>>
    \/ /\ \E o \in SessionOutcomes(OppListDocs) : TabArbitrage(o)
       /\ UNCHANGED <<chkVars, fnVars>>
    \/ /\ \E o \in SessionOutcomes(PortfolioDocs) : TabPortfolio(o)
       /\ UNCHANGED <<chkVars, fnVars>>

Spec == Init /\ [][Next]_vars

\* one UI session on the order books of one symbol: the user edits the
\* base URL and picks highlights, the API also answers partial order books
ViewSymbols == <<AVAILABLE_SYMBOLS[2]>>

NextView ==
    \/ /\ \E auto_refresh \in BOOLEAN, fired \in BOOLEAN, url \in ApiBaseUrls :
                Rerun(auto_refresh, fired, url)
       /\ UNCHANGED <<chkVars, fnVars>>
    \/ /\ \E o1 \in SessionOutcomes(PortfolioDocs), o2 \in SessionOutcomes(OppListDocs) :
                TabDashboard(o1, o2)
       /\ UNCHANGED <<chkVars, fnVars>>
    \/ /\ \E exs \in Selections(AVAILABLE_EXCHANGES),
             syms \in Selections(ViewSymbols) : TabOrderbook(exs, syms)
       /\ UNCHANGED <<chkVars, fnVars>>
    \/ /\ \E o \in SessionOutcomes(OppListDocs), pick \in Picks : OppAccess(o, pick)
       /\ UNCHANGED <<chkVars, fnVars>>
    \/ /\ \E o \in SessionOutcomes(OrderBookDocs \cup PartialOrderBookDocs) : ObAccess(o)
       /\ UNCHANGED <<chkVars, fnVars>>
    \/ /\ \E o \in SessionOutcomes(OppListDocs) : TabArbitrage(o)
       /\ UNCHANGED <<chkVars, fnVars>>
    \/ /\ \E o \in SessionOutcomes(PortfolioDocs) : TabPortfolio(o)
       /\ UNCHANGED <<chkVars, fnVars>>

SpecView == Init /\ [][NextView]_vars

\* one run of the contract checker
InitC == InitUI /\ InitChk /\ IdleFn

NextChk ==
    \/ /\ \E o \in CheckOutcomes : RunCheck(o)
       /\ UNCHANGED <<uiVars, fnVars>>
    \/ /\ Summarise
       /\ UNCHANGED <<uiVars, fnVars>>

SpecChk == InitC /\ [][NextChk]_vars

\* the pure helpers
InitF == InitUI /\ IdleChk /\ InitFn

NextFn ==
    \/ ApplyFetch /\ UNCHANGED <<uiVars, chkVars>>
    \/ ApplyRows  /\ UNCHANGED <<uiVars, chkVars>>
    \/ ApplyKeys  /\ UNCHANGED <<uiVars, chkVars>>
    \/ ApplyRender /\ UNCHANGED <<uiVars, chkVars>>
    \/ ApplyPositions /\ UNCHANGED <<uiVars, chkVars>>

SpecFn == InitF /\ [][NextFn]_vars

-----------------------------------------------------------------------------
(* Properties of the tick-scoped caches (Spec) *)

\* the key the access at the current position is for
CurOppKey == opp_key(symbols[sym_i])
CurObKey  == ob_key(exchanges[ex_i], symbols[sym_i])

\* C1: two accesses with the same key and the same tick, with no access of
\* the key in between, perform the compute once: an access that directly
\* follows an access of its key under its tick which computed does not
\* compute again.
C1_ComputeOncePerTick ==
    [][ /\ (pc = "opp" /\ last_access.cache = "opp" /\ last_access.key = CurOppKey
               /\ last_access.tick = refresh_tick /\ last_access.fetched)
            => ~last_access'.fetched
        /\ (pc = "ob" /\ last_access.cache = "ob" /\ last_access.key = CurObKey
               /\ last_access.tick = refresh_tick /\ last_access.fetched)
            => ~last_access'.fetched ]_vars

\* C2: after every cache access of key k under tick g the stored tick of k
\* is g and the consumer was handed the value stored with it.
C2_StoredTickIsAccessTick ==
    /\ last_access.cache = "opp" =>
            /\ GetVer(opp_cache_ver, last_access.key) = last_access.tick
            /\ last_access.returned
            /\ opp_cache[last_access.key] = last_access.value
    /\ last_access.cache = "ob" =>
            /\ GetVer(orderbook_cache_ver, last_access.key) = last_access.tick
            /\ last_access.returned
            /\ orderbook_cache[last_access.key] = last_access.value

\* the entry of key k in a cache: stored or not, and the value
Entry(d, k) == IF k \in DOMAIN d THEN <<TRUE, d[k]>> ELSE <<FALSE>>

\* C3: a cache access of key k fetches for k only and leaves the stored
\* value and the stored tick of every other key of both caches as they were
\* (and no other step of a render writes a cache).
C3_OtherKeysUntouched ==
    [][ /\ \A k \in OppKeys :
              (~(pc = "opp" /\ CurOppKey = k)) =>
                  /\ Entry(opp_cache, k)' = Entry(opp_cache, k)
                  /\ Entry(opp_cache_ver, k)' = Entry(opp_cache_ver, k)
        /\ \A k \in ObKeys :
              (~(pc = "ob" /\ CurObKey = k)) =>
                  /\ Entry(orderbook_cache, k)' = Entry(orderbook_cache, k)
                  /\ Entry(orderbook_cache_ver, k)' = Entry(orderbook_cache_ver, k)
        /\ pc = "opp" => last_access'.cache = "opp" /\ last_access'.key = CurOppKey
        /\ pc = "ob" => last_access'.cache = "ob" /\ last_access'.key = CurObKey
        /\ DOMAIN opp_cache' \subseteq OppKeys
        /\ DOMAIN orderbook_cache' \subseteq ObKeys ]_vars

\* an access has just computed the order book of one key while another key
\* holds an order book stamped with another tick
C3_Witness ==
    /\ last_access.cache = "ob" /\ last_access.fetched /\ last_access.returned
    /\ \E k \in DOMAIN orderbook_cache_ver :
          /\ k # last_access.key
          /\ orderbook_cache_ver[k] # last_access.tick

\* C4 as stated: a render that follows a completed render of the same tick
\* issues no network call.
C4_NoCallUnderSameTick == same_tick => uncached_calls = 0

\* C4, amended: in every render no cache access fetches a key the cache
\* holds under the tick of the render, and the three other tabs have issued
\* their calls, cached nowhere, whatever the tick: two by the dashboard tab,
\* one by the arbitrage tab.
C4_OnlyCachedFetchesSaved ==
    /\ ~refetched_fresh
    /\ pc \in {"orderbook", "opp", "ob", "arbitrage"} => uncached_calls = 2
    /\ pc = "portfolio" => uncached_calls = 3

\* a render of an unchanged tick got an order book from the cache and has
\* issued the two calls of the dashboard tab again
C4_Witness ==
    /\ same_tick /\ uncached_calls = 2
    /\ last_access.cache = "ob" /\ last_access.returned /\ ~last_access.fetched

-----------------------------------------------------------------------------
(* Properties of the fetchers (SpecFn) *)

\* C5: on every transport-level failure request_json and fetch_json return
\* status 0 with a null body and do not raise.
C5_TransportFailureIsStatus0 ==
    (fn_case = "fetch" /\ fn_out.done /\ IsTransportFailure(fn_in)) =>
        /\ fn_out.request_json = Returned(0, JNull)
        /\ fn_out.fetch_json = Returned(0, JNull)

\* status 200 with a body of the given shape
Is200With(o, shape) ==
    o.kind = "response" /\ o.status = 200 /\ o.text = "json" /\ o.json.t = shape

\* C6: on every outcome fetch_opportunities returns a list and
\* fetch_orderbook / fetch_portfolio a mapping or null, the empty list / null
\* unless the outcome is status 200 with the expected shape; none raises.
C6_FetchersDegrade ==
    (fn_case = "fetch" /\ fn_out.done) =>
        /\ ~fn_out.orderbook.raised
        /\ ~fn_out.opportunities.raised
        /\ ~fn_out.portfolio.raised
        /\ fn_out.opportunities.value.t = "list"
        /\ fn_out.orderbook.value.t \in {"dict", "none"}
        /\ fn_out.portfolio.value.t \in {"dict", "none"}
        /\ ~Is200With(fn_in, "list") => fn_out.opportunities.value = JList(<<>>)
        /\ ~Is200With(fn_in, "dict") =>
                fn_out.orderbook.value = JNull /\ fn_out.portfolio.value = JNull

-----------------------------------------------------------------------------
(* Properties of the contract checker (SpecChk) *)

\* the [NG] lines printed
NgLines == Len(SelectSeq(chk_out, LAMBDA l : l = "NG"))

\* C7: every check of the profile is executed whatever the earlier checks
\* gave: the run ends only after the last check, and each check has added
\* its failure, if any, to the counter.
C7_AllChecksRun ==
    /\ chk_failures = NgLines
    /\ chk_status # "running" =>
            /\ chk_started = Len(Checks(chk_mode))
            /\ Len(chk_out) = Len(Checks(chk_mode))

\* C8: each executed check has printed one [OK]/[NG] line; a run that ends
\* prints the number of [NG] lines in its summary and exits with 0 exactly
\* when there is none.
C8_ExitCodeAndSummary ==
    /\ Len(chk_out) = chk_started
    /\ chk_status # "running" =>
            /\ chk_summary = NgLines
            /\ chk_exit = (IF NgLines = 0 THEN 0 ELSE 1)

-----------------------------------------------------------------------------
(* Properties of the validation and mapping helpers (SpecFn) *)

\* C9: the guarded ensure_keys returns the required keys that are not keys
\* of the document, in the order of the required keys, whatever the order of
\* the document's keys; all of them for a document that is not a mapping.
C9_MissingKeysInRequiredOrder ==
    (fn_case = "keys" /\ fn_out.done) =>
        LET doc == fn_in.document
            req == fn_in.required
            r   == missing_keys(doc, req)
        IN  /\ fn_out.missing_keys = r
            /\ ~r.raised
            /\ IF doc.t = "dict"
               THEN /\ r.missing = SelectSeq(req, LAMBDA k : k \notin Range(doc.body))
                    /\ fn_out.ensure_keys = r
               ELSE r.missing = req

\* a mapping whose keys come in another order than the required keys and
\* which lacks the one in the middle
C9_Witness ==
    /\ fn_case = "keys" /\ fn_out.done
    /\ fn_in.document.t = "dict"
    /\ Len(fn_in.document.body) >= 2
    /\ fn_in.document.body[1] = fn_in.required[3]
    /\ fn_in.document.body[2] = fn_in.required[1]
    /\ fn_out.missing_keys.missing = <<fn_in.required[2]>>

\* both amounts of the record are present and non-zero
BothAmounts(opp) ==
    /\ opp.buy_available_amount.t = "num" /\ opp.buy_available_amount.v # 0
    /\ opp.sell_available_amount.t = "num" /\ opp.sell_available_amount.v # 0

\* C10: the minimum amount of a record is the smaller of its two amounts
\* when both are present and non-zero; otherwise it is unavailable, never 0,
\* and the size cell and the profit cell of the row hold the placeholder.
C10_MinAmountOnlyIfBoth ==
    (fn_case = "rows" /\ fn_out.done /\ ~fn_out.built.raised) =>
        \A i \in 1..Len(fn_in) :
            LET opp == fn_in[i].body
                row == fn_out.built.rows[i]
                m   == min_amount(opp)
            IN  /\ m # Num(0)
                /\ BothAmounts(opp) =>
                        /\ m.t = "num"
                        /\ m.v \in {opp.buy_available_amount.v, opp.sell_available_amount.v}
                        /\ m.v <= opp.buy_available_amount.v
                        /\ m.v <= opp.sell_available_amount.v
                /\ ~BothAmounts(opp) =>
                        /\ m = None_
                        /\ row.cell_size = Dash
                        /\ row.cell_profit = Dash

\* a record with prices and a spread whose buy amount is 0: both cells hold
\* the placeholder
C10_Witness ==
    /\ fn_case = "rows" /\ fn_out.done /\ ~fn_out.built.raised
    /\ \E i \in 1..Len(fn_in) :
          /\ fn_in[i].body.buy_available_amount = Num(0)
          /\ fn_in[i].body.sell_available_amount.t = "num"
          /\ fn_in[i].body.sell_available_amount.v > 0
          /\ Truthy(fn_in[i].body.buy_price) /\ Truthy(fn_in[i].body.sell_price)
          /\ Truthy(fn_in[i].body.spread_jpy)
          /\ fn_out.built.rows[i].cell_size = Dash
          /\ fn_out.built.rows[i].cell_profit = Dash

\* C11: in every row whose record has spread_jpy and a minimum amount, the
\* profit cell is their product (rounded to the cell's two decimals), and
\* the cell holds the placeholder only when one of the two is absent.
C11_ProfitWheneverDefined ==
    (fn_case = "rows" /\ fn_out.done /\ ~fn_out.built.raised) =>
        \A i \in 1..Len(fn_in) :
            LET opp == fn_in[i].body
                row == fn_out.built.rows[i]
                m   == min_amount(opp)
            IN  /\ (opp.spread_jpy.t = "num" /\ m.t = "num") =>
                        row.cell_profit = Num(opp.spread_jpy.v * m.v)
                /\ row.cell_profit = Dash =>
                        (opp.spread_jpy.t = "none" \/ m.t = "none")

\* C12: in every row whose record has a minimum amount (and both prices),
\* the size cell is the minimum amount times the smaller price, rounded to
\* whole JPY; without a minimum amount it holds the placeholder.
C12_SizeUsesSmallerPrice ==
    (fn_case = "rows" /\ fn_out.done /\ ~fn_out.built.raised) =>
        \A i \in 1..Len(fn_in) :
            LET opp == fn_in[i].body
                row == fn_out.built.rows[i]
                m   == min_amount(opp)
            IN  /\ (m.t = "num" /\ opp.buy_price.t = "num" /\ opp.sell_price.t = "num") =>
                        row.cell_size =
                            Num(RoundHalfEven(
                                    m.v * Min2(opp.buy_price.v, opp.sell_price.v), 2))
                /\ m.t = "none" => row.cell_size = Dash

\* C13: for every list of records build_opportunity_rows returns one row per
\* record, in input order, whatever inputs of the derived fields are missing
\* or invalid; spread_bps is computed whenever spread_pct is a number.
C13_OneRowPerRecord ==
    (fn_case = "rows" /\ fn_out.done /\ AllMappings(fn_in)) =>
        /\ ~fn_out.built.raised
        /\ Len(fn_out.built.rows) = Len(fn_in)
        /\ \A i \in 1..Len(fn_in) :
              /\ fn_out.built.rows[i].buy_exchange = GetOrEmpty(fn_in[i].body.buy_exchange)
              /\ fn_out.built.rows[i].buy_price = fn_in[i].body.buy_price
              /\ fn_in[i].body.spread_pct.t = "num" =>
                        fn_out.built.rows[i].spread_bps.t = "num"

-----------------------------------------------------------------------------
(* Properties of the order-book table (SpecFn) *)

\* level k (1-based) of levels is the first one at the smallest distance to p
IsFirstNearest(levels, p, k) ==
    /\ k \in 1..Len(levels)
    /\ \A j \in 1..Len(levels) :
          /\ Abs(LevelPrice(levels[k]) - p) <= Abs(LevelPrice(levels[j]) - p)
          /\ j < k => Abs(LevelPrice(levels[j]) - p) > Abs(LevelPrice(levels[k]) - p)

\* C14: the highlighted level of a side is, in the side's sequence ordered
\* best price first, the first level at the smallest distance to the target
\* price; no level is highlighted when the side is empty or the target
\* price is absent.
C14_NearestLevelLowestIndex ==
    (fn_case = "render" /\ fn_out.done /\ ~fn_out.table.raised) =>
        LET asks == fn_in.orderbook.body.asks.body
            bids == fn_in.orderbook.body.bids.body
            p    == fn_out.highlight.price
            t    == fn_out.table
        IN  /\ t.ask_hit_idx # -1 =>
                    IsFirstNearest(asks, p.v, Len(asks) - t.ask_hit_idx)
            /\ t.bid_hit_idx # -1 =>
                    IsFirstNearest(bids, p.v, t.bid_hit_idx + 1)
            /\ p.t = "none" => t.ask_hit_idx = -1 /\ t.bid_hit_idx = -1
            /\ asks = <<>> => t.ask_hit_idx = -1
            /\ bids = <<>> => t.bid_hit_idx = -1

\* C15: the highlight of an exchange is role buy with the buy price if it
\* is the buy exchange of the stored opportunity, else role sell with the
\* sell price if it is the sell exchange, else none; the table highlights
\* at most one level, on the ask side for buy and on the bid side for sell.
C15_OneRoleOneLevel ==
    (fn_case = "render" /\ fn_out.done) =>
        LET h  == fn_out.highlight
            hs == fn_in.h_state
            t  == fn_out.table
        IN  /\ IF hs.set /\ hs.opp.buy_exchange.s = fn_in.ex
               THEN h.role = "buy" /\ h.price = hs.opp.buy_price
               ELSE IF hs.set /\ hs.opp.sell_exchange.s = fn_in.ex
               THEN h.role = "sell" /\ h.price = hs.opp.sell_price
               ELSE h.role = "none"
            /\ ~(t.ask_hit_idx # -1 /\ t.bid_hit_idx # -1)
            /\ t.ask_hit_idx # -1 => h.role = "buy"
            /\ t.bid_hit_idx # -1 => h.role = "sell"

\* the exchange of the column is both the buy and the sell exchange, at
\* different prices: the table highlights an ask and no bid
C15_Witness ==
    /\ fn_case = "render" /\ fn_out.done /\ ~fn_out.table.raised
    /\ fn_in.h_state.set
    /\ fn_in.h_state.opp.buy_exchange.s = fn_in.ex
    /\ fn_in.h_state.opp.sell_exchange.s = fn_in.ex
    /\ fn_in.h_state.opp.buy_price # fn_in.h_state.opp.sell_price
    /\ fn_in.h_state.opp.sell_price.t = "num"
    /\ Len(fn_out.table.bids) > 0
    /\ fn_out.table.ask_hit_idx # -1 /\ fn_out.table.bid_hit_idx = -1

-----------------------------------------------------------------------------
(* Properties of build_portfolio_positions (SpecFn) *)

\* the (exchange, currency, balance) triples of a balances mapping whose
\* exchange entry and currency entry are both mappings
BalancePairs(balances) ==
    { <<balances.body[i][1], balances.body[i][2].body[j][1],
        balances.body[i][2].body[j][2]>> :
        <<i, j>> \in { ij \in (1..Len(balances.body)) \X (1..MaxEntries) :
                          /\ balances.body[ij[1]][2].t = "dict"
                          /\ ij[2] <= Len(balances.body[ij[1]][2].body)
                          /\ balances.body[ij[1]][2].body[ij[2]][2].t = "dict" } }

\* C17: for a balances mapping build_portfolio_positions returns one
\* position for each (exchange, currency) pair whose exchange entry and
\* currency entry are mappings, and nothing else; the other entries are
\* skipped without an error.
C17_OnePositionPerBalance ==
    (fn_case = "positions" /\ fn_out.done /\ fn_in.body.balances.t = "dict") =>
        LET pairs == BalancePairs(fn_in.body.balances)
            ps    == fn_out.built.positions
        IN  /\ ~fn_out.built.raised
            /\ Len(ps) = Cardinality(pairs)
            /\ { <<ps[i].exchange, ps[i].currency>> : i \in 1..Len(ps) }
                   = { <<t[1], t[2]>> : t \in pairs }
            /\ \A i \in 1..Len(ps) :
                  \E t \in pairs : ps[i] = Position(t[1], t[2], t[3])

\* two exchanges, one of them no mapping; the other holds two currencies,
\* one of them no mapping: exactly one position
C17_Witness ==
    /\ fn_case = "positions" /\ fn_out.done /\ ~fn_out.built.raised
    /\ Len(fn_in.body.balances.body) = 2
    /\ fn_in.body.balances.body[1][2].t = "none"
    /\ fn_in.body.balances.body[2][2].t = "dict"
    /\ Len(fn_in.body.balances.body[2][2].body) = 2
    /\ fn_in.body.balances.body[2][2].body[1][2].t = "none"
    /\ Len(fn_out.built.positions) = 1
    /\ fn_out.built.positions[1].currency = fn_in.body.balances.body[2][2].body[2][1]

-----------------------------------------------------------------------------
(* Properties of a whole render and of the session state (Spec, SpecView) *)

\* C16: a render completes without raising, whatever the fetches give.
C16_RenderNeverRaises == render_status # "raised"

\* C18: the value map and the tick map of each cache always have the same
\* keys, the key of an access stamped with the tick of the render is in the
\* value map, and no step removes an entry.
C18_CacheMapsSameKeys ==
    /\ [](/\ DOMAIN opp_cache = DOMAIN opp_cache_ver
          /\ DOMAIN orderbook_cache = DOMAIN orderbook_cache_ver)
    /\ [][
        /\ DOMAIN opp_cache \subseteq DOMAIN opp_cache'
        /\ DOMAIN orderbook_cache \subseteq DOMAIN orderbook_cache'
        /\ (pc = "ob" /\ GetVer(orderbook_cache_ver, CurObKey) = refresh_tick)
              => CurObKey \in DOMAIN orderbook_cache
        /\ (pc = "opp" /\ GetVer(opp_cache_ver, CurOppKey) = refresh_tick)
              => CurOppKey \in DOMAIN opp_cache ]_vars

\* one order-book key holds a stored null with its tick while the other
\* key has neither a value nor a tick
C18_Witness ==
    /\ \E k \in DOMAIN orderbook_cache :
          orderbook_cache[k].t = "none" /\ k \in DOMAIN orderbook_cache_ver
    /\ \E k \in ObKeys :
          k \notin DOMAIN orderbook_cache /\ k \notin DOMAIN orderbook_cache_ver
    /\ DOMAIN opp_cache # {}

\* C19: an access of a key that is stored under the tick of the render does
\* not fetch, leaves the entry as it is and returns the stored value,
\* whatever the base URL of the render and whatever the stored value (a
\* null or an empty list of a failed fetch included).
C19_FreshnessByTickAlone ==
    [][ /\ (pc = "opp" /\ GetVer(opp_cache_ver, CurOppKey) = refresh_tick) =>
              /\ ~last_access'.fetched /\ last_access'.returned
              /\ last_access'.value = opp_cache[CurOppKey]
              /\ opp_cache' = opp_cache /\ opp_cache_ver' = opp_cache_ver
        /\ (pc = "ob" /\ GetVer(orderbook_cache_ver, CurObKey) = refresh_tick) =>
              /\ ~last_access'.fetched /\ last_access'.returned
              /\ last_access'.value = orderbook_cache[CurObKey]
              /\ orderbook_cache' = orderbook_cache
              /\ orderbook_cache_ver' = orderbook_cache_ver ]_vars

\* a render of an unchanged tick with another base URL is handed, from the
\* cache, the null of an order-book fetch that had failed
C19_Witness ==
    /\ url_changed /\ same_tick
    /\ last_access.cache = "ob" /\ last_access.returned /\ ~last_access.fetched
    /\ last_access.value.t = "none"

\* the stored highlights differ
HChanged(old, new) ==
    \/ old.set # new.set
    \/ old.set /\ (old.row # new.row \/ old.opp # new.opp)

\* C20: the stored highlight of a symbol changes only in the render step of
\* that symbol and only when its top-opportunity list is non-empty; it then
\* holds the row at an index inside the list.  With an empty list it stays,
\* and the columns of the symbol are rendered with the highlight derived
\* from what is stored.
C20_HighlightKeptOnEmptyList ==
    [][ /\ \A sym \in Range(AVAILABLE_SYMBOLS) :
              LET old == HGet(highlight_state, sym)
                  new == HGet(highlight_state', sym)
                  here == pc = "opp" /\ symbols[sym_i] = sym /\ last_access'.returned
              IN  /\ HChanged(old, new) => here /\ last_access'.value # <<>>
                  /\ (here /\ last_access'.value # <<>>) =>
                        /\ new.set
                        /\ new.row \in 0..(Len(last_access'.value) - 1)
                        /\ new.opp = last_access'.value[new.row + 1]
                  /\ (here /\ last_access'.value = <<>>) => ~HChanged(old, new)
        /\ \A i \in 1..Len(shown'.cols) :
              shown'.cols[i].highlight =
                  highlight_of(HGet(highlight_state', shown'.sym), shown'.cols[i].ex) ]_vars

\* the column of the buy exchange is rendered with the highlight of an
\* earlier render while the list of the symbol is empty
C20_Witness ==
    /\ shown.cols # <<>>
    /\ shown.cols[1].highlight.role = "buy"
    /\ opp_key(shown.sym) \in DOMAIN opp_cache
    /\ opp_cache[opp_key(shown.sym)] = <<>>

====
